---- MODULE Spec2Model ----
(***************************************************************************)
(* Balance engine of the expense-splitting app: BalanceCalculator          *)
(* (src/context/plans/base-plan.md, Task 5.3).                             *)
(*                                                                         *)
(* Money is a JavaScript number in the source.  The model keeps it as a    *)
(* fixed-point integer whose unit is 0.005 (half a cent), so that the      *)
(* 0.01 tolerance of the source is Tol = 2 units and values strictly       *)
(* between 0 and 0.01 exist.  Arithmetic is exact.                         *)
(***************************************************************************)
EXTENDS Integers, Sequences, FiniteSets

VARIABLES
    expenses,       \* Expense[] handed to calculateGroupBalances
    memberIds,      \* the roster (group.members), a sequence of user ids
    memberNames,    \* Map<string,string>: user id -> display name
    groupBalances,  \* GroupBalance[]: the array calculateGroupBalances returned
    pc,             \* "start" | "calculated" | "loop" | "returned"
    creditors,      \* simplifyDebts: references (indices) into groupBalances
    debtors,        \* simplifyDebts: copies of the debtor objects, balance negated
    i,              \* simplifyDebts: index into creditors (0-based)
    j,              \* simplifyDebts: index into debtors (0-based)
    transactions,   \* simplifyDebts: the Balance[] being built
    original,       \* the argument of the running/last simplifyDebts call, as passed
    result,         \* what the last simplifyDebts call on this array returned
    prevResult,     \* what the call before it, on the same array, returned
    numAmount,      \* splitEqually / validateCustomSplits: the argument amount
    formSplits,     \* the ExpenseSplit[] of the expense being composed
    valid,          \* what validateCustomSplits(numAmount, formSplits) returned:
                    \* "true" | "false", "none" before the call
    auth,           \* useAuthStore: user ("null" for null), isAuthenticated,
                    \* isLoading, error, verificationId
    persistedUser,  \* AsyncStorage 'auth-storage': the user persisted
    authUser,       \* Firebase auth().currentUser: a uid or "null"
    profileDoc,     \* Firestore users/{uid}: "none" | "incomplete" | "complete"
    op,             \* the useAuth operation awaiting, "idle" when none is
    listener,       \* the auth-state listener callbacks awaiting getCurrentUserData:
                    \* "reading", or what it read and setUser is to get
    profileDone,    \* completeProfile has resolved and signOut was not called since
    settlements,    \* useSettlementsStore: the Settlement[] of the group
    screen,         \* the screen navigation shows: "Balances" | "RecordSettlement"
    routeParams,    \* the params of the last navigate: <<>> or <<params>>
    pressed,        \* the member whose Settle button was pressed last, "none"
    serverDocs,     \* Firestore: the expense documents of the group, newest first
    pending,        \* handleSubmit: <<>> or <<created>>, createExpense awaited
    snapshotDue,    \* a snapshot of the documents is yet to reach the listener
    form,           \* AddExpenseScreen: description, amount, paidBy, selectedMembers
    nextId,         \* how many documents Firestore has given an id to
    alert           \* the last Alert.alert: "none" | "Error" | "Success"

uiVars == <<settlements, screen, routeParams, pressed>>
storeVars == <<serverDocs, pending, snapshotDue, form, nextId, alert>>
authVars == <<auth, persistedUser, authUser, profileDoc, op, listener, profileDone>>
otherVars == <<uiVars, storeVars, authVars>>

vars == <<expenses, memberIds, memberNames, groupBalances, pc, creditors,
          debtors, i, j, transactions, original, result, prevResult,
          numAmount, formSplits, valid, otherVars>>

\* null
Null == "null"

\* the form of AddExpenseScreen as useState leaves it
EmptyForm == [description |-> "", amount |-> "", paidBy |-> "", selectedMembers |-> <<>>]

\* the stores and the screens before anything has happened
UiIdle ==
    /\ settlements = <<>>
    /\ screen = "Balances"
    /\ routeParams = <<>>
    /\ pressed = "none"

StoreIdle ==
    /\ serverDocs = <<>>
    /\ pending = <<>>
    /\ snapshotDue = FALSE
    /\ form = EmptyForm
    /\ nextId = 0
    /\ alert = "none"

\* the state useAuthStore is created with
InitialAuth ==
    [user |-> Null, isAuthenticated |-> FALSE, isLoading |-> TRUE, error |-> Null,
     verificationId |-> Null]

\* the store with user u signed in and nothing loading
SignedIn(u) ==
    [user |-> u, isAuthenticated |-> TRUE, isLoading |-> FALSE, error |-> Null,
     verificationId |-> Null]

\* Firebase and the hook with nobody signed in and nothing in flight
SessionIdle ==
    /\ persistedUser = Null
    /\ authUser = Null
    /\ profileDoc = "none"
    /\ op = "idle"
    /\ listener = <<>>
    /\ profileDone = FALSE

AuthIdle == auth = InitialAuth /\ SessionIdle

OthersIdle == UiIdle /\ StoreIdle /\ AuthIdle

\* ------------------------------------------------------------------ bounds
MaxMembers == 3     \* length of the GroupBalance[] drawn for simplifyDebts
MaxBal == 6         \* |balance| of a drawn GroupBalance, in units of 0.005
MaxExpenses == 2    \* length of the expense list
MaxRoster == 2      \* length of the roster

\* the tolerance 0.01 of the source, in units of 0.005
Tol == 2

NoResult == "none"

\* ----------------------------------------------------------------- helpers
Range(s) == {s[k] : k \in DOMAIN s}

RECURSIVE SumSeq(_)
SumSeq(s) == IF s = <<>> THEN 0 ELSE s[1] + SumSeq(Tail(s))

Abs(x) == IF x < 0 THEN -x ELSE x

\* Math.max in the place of Math.min
MaxOf(a, b) == IF a < b THEN b ELSE a

\* Math.min
Min(a, b) == IF a < b THEN a ELSE b

SeqsUpTo(S, n) == UNION {[1..k -> S] : k \in 0..n}

\* ------------------------------------------------------------ simplifyDebts
\* Array.prototype.filter: the elements of s that satisfy Keep, in order
RECURSIVE Filter(_, _)
Filter(s, keep) ==
    IF s = <<>> THEN <<>>
    ELSE IF s[1] \in keep THEN <<s[1]>> \o Filter(Tail(s), keep)
         ELSE Filter(Tail(s), keep)

\* one insertion of the stable sort: x goes after every element whose balance
\* is not smaller (comparator (a, b) => b.balance - a.balance)
RECURSIVE InsertDesc(_, _)
InsertDesc(s, x) ==
    IF s = <<>> THEN <<x>>
    ELSE IF s[1].balance >= x.balance THEN <<s[1]>> \o InsertDesc(Tail(s), x)
         ELSE <<x>> \o s

\* .sort((a, b) => b.balance - a.balance): descending by balance, stable
RECURSIVE SortDesc(_)
SortDesc(s) ==
    IF s = <<>> THEN <<>>
    ELSE InsertDesc(SortDesc(SubSeq(s, 1, Len(s) - 1)), s[Len(s)])

\* CreditorRefs with the filter b.balance > 0 (the tolerance forgotten)
CreditorRefsLoose(gb) ==
    LET refs == [k \in DOMAIN gb |-> [ref |-> k, balance |-> gb[k].balance]]
        kept == Filter(refs, {r \in Range(refs) : r.balance > 0})
        sorted == SortDesc(kept)
    IN  [k \in DOMAIN sorted |-> sorted[k].ref]

\* CreditorRefs without the sort: the creditors in the order of the argument
CreditorRefsUnsorted(gb) ==
    LET refs == [k \in DOMAIN gb |-> [ref |-> k, balance |-> gb[k].balance]]
        kept == Filter(refs, {r \in Range(refs) : r.balance > Tol})
    IN  [k \in DOMAIN kept |-> kept[k].ref]

\* the creditor objects are the objects of groupBalances themselves: filter and
\* sort build a new array of the same references
CreditorRefs(gb) ==
    LET refs == [k \in DOMAIN gb |-> [ref |-> k, balance |-> gb[k].balance]]
        kept == Filter(refs, {r \in Range(refs) : r.balance > Tol})
        sorted == SortDesc(kept)
    IN  [k \in DOMAIN sorted |-> sorted[k].ref]

\* DebtorCopies with the filter b.balance < 0 (the tolerance forgotten)
DebtorCopiesLoose(gb) ==
    LET kept == Filter(gb, {b \in Range(gb) : b.balance < 0})
        copies == [k \in DOMAIN kept |-> [kept[k] EXCEPT !.balance = -kept[k].balance]]
    IN  SortDesc(copies)

\* .map((b) => ({ ...b, balance: -b.balance })): fresh objects
DebtorCopies(gb) ==
    LET kept == Filter(gb, {b \in Range(gb) : b.balance < -Tol})
        copies == [k \in DOMAIN kept |-> [kept[k] EXCEPT !.balance = -kept[k].balance]]
    IN  SortDesc(copies)

\* Label with the two names exchanged
LabelSwapped(debtorName, creditorName) == <<creditorName, "owes", debtorName>>

\* `${debtor.displayName} owes ${creditor.displayName}`
Label(debtorName, creditorName) == <<debtorName, "owes", creditorName>>

CallableOn == {"start", "calculated", "returned"}

\* entry of simplifyDebts up to the while loop
SimplifyDebtsCall ==
    /\ pc \in CallableOn
    /\ pc' = "loop"
    /\ original' = groupBalances
    /\ creditors' = CreditorRefs(groupBalances)
    /\ debtors' = DebtorCopies(groupBalances)
    /\ transactions' = <<>>
    /\ i' = 0
    /\ j' = 0
    /\ UNCHANGED <<otherVars, numAmount, formSplits, valid, expenses, memberIds, memberNames, groupBalances, result, prevResult>>

\* Advance that moves on whatever remains
AdvanceAlways(p, remaining) == p + 1

\* if (x.balance < 0.01) p++
Advance(p, remaining) == IF remaining < Tol THEN p + 1 ELSE p

\* one iteration of the while loop
SimplifyDebtsLoop ==
    /\ pc = "loop"
    /\ i < Len(creditors) /\ j < Len(debtors)
    /\ LET cref == creditors[i + 1]
           creditor == groupBalances[cref]
           debtor == debtors[j + 1]
           amount == Min(creditor.balance, debtor.balance)
       IN  /\ transactions' = Append(transactions,
                 [userId |-> debtor.userId,
                  displayName |-> Label(debtor.displayName, creditor.displayName),
                  amount |-> amount])
           /\ groupBalances' = [groupBalances EXCEPT ![cref].balance = @ - amount]
           /\ debtors' = [debtors EXCEPT ![j + 1].balance = @ - amount]
           /\ i' = Advance(i, creditor.balance - amount)
           /\ j' = Advance(j, debtor.balance - amount)
    /\ UNCHANGED <<otherVars, numAmount, formSplits, valid, expenses, memberIds, memberNames, pc, creditors, original,
                   result, prevResult>>

\* loop exit and return transactions
SimplifyDebtsReturn ==
    /\ pc = "loop"
    /\ ~(i < Len(creditors) /\ j < Len(debtors))
    /\ pc' = "returned"
    /\ result' = transactions
    /\ prevResult' = result
    /\ UNCHANGED <<otherVars, numAmount, formSplits, valid, expenses, memberIds, memberNames, groupBalances, creditors,
                   debtors, i, j, transactions, original>>

\* -------------------------------------------- inputs drawn for simplifyDebts
IdSeq == <<"m1", "m2", "m3", "m4", "m5">>
NameSeq == <<"Alice", "Bob", "Unknown", "Dan", "Eve">>

\* a GroupBalance with net balance b: it paid b more than it owes, or owes -b more
DrawnBalance(k, b) ==
    [groupId |-> "group1", userId |-> IdSeq[k], displayName |-> NameSeq[k],
     totalPaid |-> IF b > 0 THEN b ELSE 0,
     totalOwed |-> IF b < 0 THEN -b ELSE 0,
     balance |-> b]

DrawnLists ==
    {[k \in DOMAIN bs |-> DrawnBalance(k, bs[k])] :
        bs \in SeqsUpTo((-MaxBal)..MaxBal, MaxMembers)}

InitDebts ==
    /\ expenses = <<>>
    /\ memberIds = <<>>
    /\ memberNames = <<>>
    /\ groupBalances \in DrawnLists
    /\ pc = "calculated"
    /\ creditors = <<>>
    /\ debtors = <<>>
    /\ i = 0
    /\ j = 0
    /\ transactions = <<>>
    /\ original = <<>>
    /\ result = NoResult
    /\ prevResult = NoResult
    /\ numAmount = 0
    /\ formSplits = <<>>
    /\ valid = NoResult
    /\ OthersIdle

NextDebts == SimplifyDebtsCall \/ SimplifyDebtsLoop \/ SimplifyDebtsReturn

SpecDebts == InitDebts /\ [][NextDebts]_vars

\* --------------------------------------------------- calculateGroupBalances
\* A JavaScript Map: the keys in insertion order and the value of each key.
EmptyMap == [keys |-> <<>>, val |-> <<>>]

MapHas(m, k) == k \in DOMAIN m.val

\* MapSet that puts a new key first
MapSetFront(m, k, v) ==
    IF MapHas(m, k)
    THEN [m EXCEPT !.val[k] = v]
    ELSE [keys |-> <<k>> \o m.keys,
          val |-> [x \in DOMAIN m.val \cup {k} |-> IF x = k THEN v ELSE m.val[x]]]

\* Map.prototype.set: a new key goes last, a known key keeps its place
MapSet(m, k, v) ==
    IF MapHas(m, k)
    THEN [m EXCEPT !.val[k] = v]
    ELSE [keys |-> Append(m.keys, k),
          val |-> [x \in DOMAIN m.val \cup {k} |-> IF x = k THEN v ELSE m.val[x]]]

\* Array.from(map.values())
MapValues(m) == [k \in DOMAIN m.keys |-> m.val[m.keys[k]]]

\* NameOrUnknown without the fallback: '' where the map has no entry
NameOrUnknownNoFallback(names, userId) ==
    IF userId \in DOMAIN names THEN names[userId] ELSE ""

\* memberNames.get(userId) || 'Unknown'
NameOrUnknown(names, userId) ==
    IF userId \in DOMAIN names /\ names[userId] # "" THEN names[userId] ELSE "Unknown"

\* expenses[0]?.groupId || ''
GroupIdOf(exps) == IF exps = <<>> THEN "" ELSE exps[1].groupId

\* memberIds.forEach((userId) => balances.set(userId, {...zeroes}))
RECURSIVE InitBalances(_, _, _, _)
InitBalances(m, ids, names, gid) ==
    IF ids = <<>> THEN m
    ELSE InitBalances(
            MapSet(m, ids[1],
                   [groupId |-> gid, userId |-> ids[1],
                    displayName |-> NameOrUnknown(names, ids[1]),
                    totalPaid |-> 0, totalOwed |-> 0, balance |-> 0]),
            Tail(ids), names, gid)

\* AddSplit without the test of split.settled
AddSplitIgnoringSettled(m, split) ==
    IF MapHas(m, split.userId)
    THEN [m EXCEPT !.val[split.userId].totalOwed = @ + split.amount]
    ELSE m

\* if (!split.settled) { member = balances.get(split.userId);
\*                       if (member) member.totalOwed += split.amount }
AddSplit(m, split) ==
    IF ~split.settled /\ MapHas(m, split.userId)
    THEN [m EXCEPT !.val[split.userId].totalOwed = @ + split.amount]
    ELSE m

\* AddSplits that looks at splits[0] only
AddSplitsFirstOnly(m, splits) ==
    IF splits = <<>> THEN m ELSE AddSplit(m, splits[1])

\* expense.splits.forEach(...)
RECURSIVE AddSplits(_, _)
AddSplits(m, splits) ==
    IF splits = <<>> THEN m ELSE AddSplits(AddSplit(m, splits[1]), Tail(splits))

\* AddPaid with = for +=
AddPaidAssign(m, expense) ==
    IF MapHas(m, expense.paidBy)
    THEN [m EXCEPT !.val[expense.paidBy].totalPaid = expense.amount]
    ELSE m

\* payer = balances.get(expense.paidBy); if (payer) payer.totalPaid += expense.amount
AddPaid(m, expense) ==
    IF MapHas(m, expense.paidBy)
    THEN [m EXCEPT !.val[expense.paidBy].totalPaid = @ + expense.amount]
    ELSE m

\* expenses.forEach((expense) => {...})
RECURSIVE AddExpenses(_, _)
AddExpenses(m, exps) ==
    IF exps = <<>> THEN m
    ELSE AddExpenses(AddSplits(AddPaid(m, exps[1]), exps[1].splits), Tail(exps))

\* balances.forEach((balance) => balance.balance = totalPaid - totalOwed)
SetNetBalances(m) ==
    [m EXCEPT !.val = [k \in DOMAIN m.val |->
                          [m.val[k] EXCEPT !.balance = m.val[k].totalPaid - m.val[k].totalOwed]]]

calculateGroupBalances(exps, ids, names) ==
    MapValues(SetNetBalances(
        AddExpenses(InitBalances(EmptyMap, ids, names, GroupIdOf(exps)), exps)))

\* CalculateGroupBalances over a calculation that drains its argument
\* (while (expenses.length) { expense = expenses.shift(); ... })
CalculateGroupBalancesDraining ==
    /\ pc \in CallableOn
    /\ pc' = "calculated"
    /\ groupBalances' = calculateGroupBalances(expenses, memberIds, memberNames)
    /\ expenses' = <<>>
    /\ creditors' = <<>>
    /\ debtors' = <<>>
    /\ i' = 0
    /\ j' = 0
    /\ transactions' = <<>>
    /\ original' = <<>>
    /\ result' = NoResult
    /\ prevResult' = NoResult
    /\ UNCHANGED <<otherVars, numAmount, formSplits, valid, memberIds, memberNames>>

\* the effect of BalancesScreen / GroupDetailsScreen: compute and setBalances
CalculateGroupBalances ==
    /\ pc \in CallableOn
    /\ pc' = "calculated"
    /\ groupBalances' = calculateGroupBalances(expenses, memberIds, memberNames)
    /\ creditors' = <<>>
    /\ debtors' = <<>>
    /\ i' = 0
    /\ j' = 0
    /\ transactions' = <<>>
    /\ original' = <<>>
    /\ result' = NoResult
    /\ prevResult' = NoResult
    /\ UNCHANGED <<otherVars, numAmount, formSplits, valid, expenses, memberIds, memberNames>>

\* ------------------------------------ inputs drawn for calculateGroupBalances
Ids == {"m1", "m2", "m3"}
Payers == {"m1", "m2"}
Amounts == {6000}
SplitAmounts == {3000}

Unsettled(u) == {[userId |-> u, amount |-> a, settled |-> FALSE] : a \in SplitAmounts}
Settled(u) == {[userId |-> u, amount |-> a, settled |-> TRUE] : a \in SplitAmounts}

\* the split lists an expense is drawn with: none, one or two splits, settled
\* or not, of one member or of two; every split list of one expense
SplitLists ==
    {<<>>}
    \cup {<<s>> : s \in Unsettled("m2") \cup Settled("m2")}
    \cup {<<s, t>> : s \in Unsettled("m2") \cup Settled("m2"), t \in Settled("m3")}
    \cup {<<s, t>> : s \in Unsettled("m2"), t \in Unsettled("m3")}
    \cup {<<s, t>> : s \in Unsettled("m3"), t \in Unsettled("m3")}

Expenses ==
    [groupId : {"group1"}, amount : Amounts, paidBy : Payers, splits : SplitLists]

\* m3 has no display name
NameMaps == {[u \in {"m1", "m2"} |-> IF u = "m1" THEN "Alice" ELSE "Bob"]}

Init ==
    /\ expenses \in SeqsUpTo(Expenses, MaxExpenses)
    /\ memberIds \in SeqsUpTo(Ids, MaxRoster)
    /\ memberNames \in NameMaps
    /\ groupBalances = <<>>
    /\ pc = "start"
    /\ creditors = <<>>
    /\ debtors = <<>>
    /\ i = 0
    /\ j = 0
    /\ transactions = <<>>
    /\ original = <<>>
    /\ result = NoResult
    /\ prevResult = NoResult
    /\ numAmount = 0
    /\ formSplits = <<>>
    /\ valid = NoResult
    /\ OthersIdle

Next ==
    \/ CalculateGroupBalances
    \/ SimplifyDebtsCall
    \/ SimplifyDebtsLoop
    \/ SimplifyDebtsReturn

Spec == Init /\ [][Next]_vars

\* ================================================================== claims
\* sum of f over the finite index set S
RECURSIVE SumOf(_, _)
SumOf(f, S) ==
    IF S = {} THEN 0
    ELSE LET x == CHOOSE y \in S : TRUE IN f[x] + SumOf(f, S \ {x})

\* ------------------------------------------------- simplifyDebts (SpecDebts)
\* the creditors and debtors of the list a call was given
CreditorsOf(gb) == {k \in DOMAIN gb : gb[k].balance > Tol}
DebtorsOf(gb) == {k \in DOMAIN gb : gb[k].balance < -Tol}

\* what the returned transactions charge to user u, and credit to display name n
ChargedTo(txs, u) ==
    SumOf([t \in DOMAIN txs |-> IF txs[t].userId = u THEN txs[t].amount ELSE 0], DOMAIN txs)
TxCount(txs, u) == Cardinality({t \in DOMAIN txs : txs[t].userId = u})

\* C1 as stated: after simplifyDebts returns, every member whose balance was
\* below -0.01 is charged, over the returned transactions, its |balance| to
\* within 0.01.
C1_EveryDebtorSettled ==
    pc = "returned" =>
        \A k \in DebtorsOf(original) :
            Abs(ChargedTo(result, original[k].userId) + original[k].balance) <= Tol

\* C1 amended: every debtor the loop moved past (debtors[0..j-1], all debtors
\* when the loop ends with j = debtors.length) is charged its |balance| to
\* within 0.01, and no debtor is charged more than its |balance|.
C1_PassedDebtorsSettled ==
    pc = "returned" =>
        \A k \in DOMAIN debtors :
            LET owed == CHOOSE b \in {-original[n].balance : n \in
                            {n \in DOMAIN original : original[n].userId = debtors[k].userId}} : TRUE
                charged == ChargedTo(result, debtors[k].userId)
            IN  /\ charged <= owed
                /\ k <= j => owed - charged < Tol

C1_Witness ==
    /\ pc = "returned"
    /\ \E k \in DOMAIN debtors : k <= j /\ TxCount(result, debtors[k].userId) >= 2

\* C4 as stated: two calls in succession on the same array return equal lists.
C4_SecondCallEqual ==
    (pc = "returned" /\ prevResult # NoResult) => result = prevResult

\* C5 as stated: when simplifyDebts returns, the objects of its argument hold
\* what they held when it was called.
C5_ArgumentUnchanged ==
    pc = "returned" => groupBalances = original

\* C6 as stated: the number of transactions is at most
\* creditors + debtors - 1, for any input.
C6_AtMostPoolsMinusOne ==
    pc = "returned" =>
        Len(result) <= Cardinality(CreditorsOf(original)) + Cardinality(DebtorsOf(original)) - 1

\* C6 amended: while the loop runs and when it returns, the transactions emitted
\* number at most creditors + debtors - 1 if there is a creditor or a debtor,
\* and none if there is neither; so the loop ends after that many iterations.
C6_AtMostPoolsMinusOneOrNone ==
    pc \in {"loop", "returned"} =>
        LET pools == Cardinality(CreditorsOf(original)) + Cardinality(DebtorsOf(original))
        IN  Len(transactions) <= IF pools = 0 THEN 0 ELSE pools - 1

C6_Witness ==
    /\ pc = "returned"
    /\ Cardinality(CreditorsOf(original)) + Cardinality(DebtorsOf(original)) = 3
    /\ Len(result) = 2

\* C9: a member whose |balance| is below 0.01 is the debtor of no returned
\* transaction and the creditor named in none; when every |balance| is below
\* 0.01 the returned list is empty.
C9_SettledMembersLeftOut ==
    pc = "returned" =>
        /\ \A k \in DOMAIN original :
              Abs(original[k].balance) < Tol =>
                  \A t \in DOMAIN result :
                      /\ result[t].userId # original[k].userId
                      /\ result[t].displayName[1] # original[k].displayName
                      /\ result[t].displayName[3] # original[k].displayName
        /\ (\A k \in DOMAIN original : Abs(original[k].balance) < Tol) => result = <<>>

C9_Witness ==
    /\ pc = "returned"
    /\ result # <<>>
    /\ \E k \in DOMAIN original : Abs(original[k].balance) \in 1..(Tol - 1)

\* ------------------------------------------------ calculateGroupBalances (Spec)
Roster == Range(memberIds)

\* all the splits of all the expenses, as (expense index, split index)
AllSplits == UNION {{<<e, l>> : l \in DOMAIN expenses[e].splits} : e \in DOMAIN expenses}
SplitAt(p) == expenses[p[1]].splits[p[2]]

\* the amounts of the expenses whose paidBy is in U
PaidBySum(U) ==
    SumOf([e \in DOMAIN expenses |->
              IF expenses[e].paidBy \in U THEN expenses[e].amount ELSE 0], DOMAIN expenses)

\* the amounts of the unsettled splits whose userId is in U
UnsettledSum(U) ==
    SumOf([p \in AllSplits |->
              IF SplitAt(p).userId \in U /\ ~SplitAt(p).settled THEN SplitAt(p).amount ELSE 0],
          AllSplits)

Field(gb, f) == [k \in DOMAIN gb |-> gb[k][f]]

\* C2: each returned GroupBalance has totalPaid = the amounts of the expenses
\* its member paid, totalOwed = the amounts of the unsettled splits of its
\* member, and balance = totalPaid - totalOwed.
C2_PerMemberTotals ==
    pc = "calculated" =>
        \A k \in DOMAIN groupBalances :
            LET g == groupBalances[k] IN
            /\ g.totalPaid = PaidBySum({g.userId})
            /\ g.totalOwed = UnsettledSum({g.userId})
            /\ g.balance = g.totalPaid - g.totalOwed

C2_Witness ==
    /\ pc = "calculated"
    /\ \E k \in DOMAIN groupBalances :
          /\ groupBalances[k].totalPaid > 0
          /\ groupBalances[k].totalOwed > 0
          /\ \E p \in AllSplits :
                SplitAt(p).userId = groupBalances[k].userId /\ SplitAt(p).settled

EverySplitInRoster == \A p \in AllSplits : SplitAt(p).userId \in Roster
NoSplitSettled == \A p \in AllSplits : ~SplitAt(p).settled
EverySplitSettled == \A p \in AllSplits : SplitAt(p).settled
EveryPayerInRoster == \A e \in DOMAIN expenses : expenses[e].paidBy \in Roster
SplitsAddUp ==
    \A e \in DOMAIN expenses :
        SumSeq(Field(expenses[e].splits, "amount")) = expenses[e].amount

\* C3 as stated: if every split names a roster member and none is settled, the
\* returned balances sum to zero within 0.01.
C3_ZeroSum ==
    (pc = "calculated" /\ EverySplitInRoster /\ NoSplitSettled) =>
        Abs(SumSeq(Field(groupBalances, "balance"))) <= Tol

\* C3 amended: if moreover every expense is paid by a roster member and the
\* amounts of its splits add up to its amount, the returned balances sum to zero.
C3_ZeroSumOfBalancedExpenses ==
    (pc = "calculated" /\ EverySplitInRoster /\ NoSplitSettled
        /\ EveryPayerInRoster /\ SplitsAddUp) =>
        SumSeq(Field(groupBalances, "balance")) = 0

C3_Witness ==
    /\ pc = "calculated"
    /\ EverySplitInRoster /\ NoSplitSettled /\ EveryPayerInRoster /\ SplitsAddUp
    /\ Len(expenses) = 2
    /\ \E k \in DOMAIN groupBalances : groupBalances[k].balance < 0

\* C7: the totalPaid of the returned entries sum to the amounts of the expenses
\* paid by roster members, and their totalOwed to the amounts of the unsettled
\* splits of roster members; what a member outside the roster paid or owes is
\* in no entry.
C7_Conservation ==
    pc = "calculated" =>
        /\ SumSeq(Field(groupBalances, "totalPaid")) = PaidBySum(Roster)
        /\ SumSeq(Field(groupBalances, "totalOwed")) = UnsettledSum(Roster)

C7_Witness ==
    /\ pc = "calculated"
    /\ \E e \in DOMAIN expenses : expenses[e].paidBy \notin Roster
    /\ \E e \in DOMAIN expenses : expenses[e].paidBy \in Roster
    /\ \E p \in AllSplits : SplitAt(p).userId \notin Roster /\ ~SplitAt(p).settled
    /\ \E p \in AllSplits : SplitAt(p).userId \in Roster /\ ~SplitAt(p).settled

Distinct(s) == \A a, b \in DOMAIN s : a # b => s[a] # s[b]

\* C8: for a roster of distinct ids the returned array has one entry per roster
\* member, in roster order: its userIds are memberIds.
C8_RosterOrder ==
    (pc = "calculated" /\ Distinct(memberIds)) =>
        Field(groupBalances, "userId") = memberIds

C8_Witness ==
    /\ pc = "calculated"
    /\ memberIds = <<"m3", "m1">>
    /\ Len(expenses) = 2

\* C10 as stated: when every split of every expense is settled, every returned
\* balance is within 0.01 of zero.
C10_AllSettledAllZero ==
    (pc = "calculated" /\ EverySplitSettled) =>
        \A k \in DOMAIN groupBalances : Abs(groupBalances[k].balance) <= Tol

\* C11: when every split of every expense is settled, simplifyDebts applied to
\* what calculateGroupBalances returned gives the empty list.
C11_AllSettledNoTransactions ==
    (/\ pc = "returned"
     /\ EverySplitSettled
     /\ original = calculateGroupBalances(expenses, memberIds, memberNames)) =>
        result = <<>>

C11_Witness ==
    /\ pc = "returned"
    /\ EverySplitSettled
    /\ original = calculateGroupBalances(expenses, memberIds, memberNames)
    /\ \E p \in AllSplits : SplitAt(p).userId \in Roster
    /\ \E k \in DOMAIN original : original[k].balance > Tol

\* the expenses with the split at p marked settled
SettleAt(p) == [expenses EXCEPT ![p[1]].splits[p[2]].settled = TRUE]

\* C12: with one unsettled split of a roster member changed to settled and
\* nothing else, that member's balance is higher by the split's amount and its
\* totalPaid the same, and every other entry is the same.
C12_SettlingOneSplit ==
    pc = "calculated" =>
        \A p \in AllSplits :
            (~SplitAt(p).settled /\ SplitAt(p).userId \in Roster) =>
                LET after == calculateGroupBalances(SettleAt(p), memberIds, memberNames)
                IN  /\ DOMAIN after = DOMAIN groupBalances
                    /\ \A k \in DOMAIN groupBalances :
                          IF groupBalances[k].userId = SplitAt(p).userId
                          THEN /\ after[k].balance = groupBalances[k].balance + SplitAt(p).amount
                               /\ after[k].totalPaid = groupBalances[k].totalPaid
                               /\ after[k].totalOwed = groupBalances[k].totalOwed - SplitAt(p).amount
                          ELSE after[k] = groupBalances[k]

C12_Witness ==
    /\ pc = "calculated"
    /\ Len(groupBalances) = 2
    /\ \E p \in AllSplits : ~SplitAt(p).settled /\ SplitAt(p).userId \in Roster
    /\ \A k \in DOMAIN groupBalances : groupBalances[k].totalOwed > 0

\* a name map with an entry for every id
EveryoneNamed == [u \in Ids |-> u]

\* C19: a roster member without an entry in memberNames still has its entry in
\* the result, with displayName "Unknown" and the totalPaid, totalOwed and
\* balance it has when its name is mapped.
C19_UnnamedMemberKept ==
    pc = "calculated" =>
        LET named == calculateGroupBalances(expenses, memberIds, EveryoneNamed)
        IN  /\ \A u \in Roster : \E k \in DOMAIN groupBalances : groupBalances[k].userId = u
            /\ DOMAIN groupBalances = DOMAIN named
            /\ \A k \in DOMAIN groupBalances :
                  groupBalances[k].userId \notin DOMAIN memberNames =>
                      /\ groupBalances[k].displayName = "Unknown"
                      /\ groupBalances[k].totalPaid = named[k].totalPaid
                      /\ groupBalances[k].totalOwed = named[k].totalOwed
                      /\ groupBalances[k].balance = named[k].balance

C19_Witness ==
    /\ pc = "calculated"
    /\ \E k \in DOMAIN groupBalances :
          /\ groupBalances[k].userId \notin DOMAIN memberNames
          /\ groupBalances[k].totalOwed > 0
    /\ \E k \in DOMAIN groupBalances : groupBalances[k].userId \in DOMAIN memberNames

MaxAmount == 8      \* largest small amount drawn for splitEqually, in units of 0.005
MaxDebit == 2       \* largest negative amount drawn, in units of 0.005
MaxSelected == 3    \* length of the member list handed to splitEqually
MaxCustom == 4      \* largest amount of a split typed in by hand, in units of 0.005
MaxSplits == 2      \* length of a split list typed in by hand

\* the value of a division by an empty member list: Infinity, -Infinity or NaN
NonFinite == "NonFinite"

\* Round2 that cuts the digits after the second instead of rounding
Round2Down(a, n) ==
    LET m == Abs(a)
        r == 2 * (m \div (2 * n))
    IN  {IF a < 0 THEN -r ELSE r}

\* Round2 with toFixed(0): rounds to whole units of currency
Round0(a, n) ==
    LET m == Abs(a)
        q == m \div (200 * n)
        rem == m - q * 200 * n
        rs == IF rem < 100 * n THEN {200 * q}
              ELSE IF rem > 100 * n THEN {200 * q + 200}
              ELSE {200 * q, 200 * q + 200}
    IN  {IF a < 0 THEN -r ELSE r : r \in rs}

\* Number((a / n).toFixed(2)) for n > 0: the quotient rounded to whole cents,
\* the sign set aside and the magnitude rounded.  Where the exact quotient
\* lies halfway between two cents the double nearest to it decides, so both
\* neighbours are possible.
Round2(a, n) ==
    LET m == Abs(a)
        q == m \div (2 * n)
        rem == m - q * 2 * n
        rs == IF rem < n THEN {2 * q}
              ELSE IF rem > n THEN {2 * q + 2}
              ELSE {2 * q, 2 * q + 2}
    IN  {IF a < 0 THEN -r ELSE r : r \in rs}

\* the values Number(splitAmount.toFixed(2)) can take, splitAmount being
\* amount / memberIds.length
SplitAmountOf(amount, ids) ==
    IF Len(ids) = 0 THEN {NonFinite} ELSE Round2(amount, Len(ids))

\* memberIds.map((userId) => ({userId, displayName, amount, settled: false}))
splitEqually(ids, names, splitAmount) ==
    [k \in DOMAIN ids |->
        [userId |-> ids[k],
         displayName |-> NameOrUnknown(names, ids[k]),
         amount |-> splitAmount,
         settled |-> FALSE]]

\* splits.reduce((sum, split) => sum + split.amount, 0)
RECURSIVE ReduceAmounts(_, _)
ReduceAmounts(sum, splits) ==
    IF splits = <<>> THEN sum
    ELSE ReduceAmounts(sum + splits[1].amount, Tail(splits))

\* validateCustomSplits with <= 0.01
validateCustomSplitsInclusive(amount, splits) ==
    Abs(ReduceAmounts(0, splits) - amount) <= Tol

\* validateCustomSplits with Math.abs left out
validateCustomSplitsOneSided(amount, splits) ==
    ReduceAmounts(0, splits) - amount < Tol

\* Math.abs(total - amount) < 0.01
validateCustomSplits(amount, splits) ==
    Abs(ReduceAmounts(0, splits) - amount) < Tol

\* a call of splitEqually on the amount and the member list; the splits of the
\* expense become what it returns
SplitEqually ==
    /\ pc = "start"
    /\ pc' = "equal"
    /\ \E r \in SplitAmountOf(numAmount, memberIds) :
          formSplits' = splitEqually(memberIds, memberNames, r)
    /\ valid' = NoResult
    /\ UNCHANGED <<otherVars, numAmount, expenses, memberIds, memberNames, groupBalances,
                   creditors, debtors, i, j, transactions, original, result,
                   prevResult>>

\* a call of validateCustomSplits on the amount and the splits of the expense
ValidateCustomSplits ==
    /\ pc \in {"start", "equal"}
    /\ valid = NoResult
    /\ valid' = IF validateCustomSplits(numAmount, formSplits) THEN "true" ELSE "false"
    /\ UNCHANGED <<otherVars, numAmount, formSplits, pc, expenses, memberIds, memberNames,
                   groupBalances, creditors, debtors, i, j, transactions,
                   original, result, prevResult>>

\* ------------------------- inputs drawn for splitEqually / validateCustomSplits
\* 90.00 and 100.00
TestAmounts == {18000, 20000}

SplitInputAmounts == ((-MaxDebit)..MaxAmount) \cup TestAmounts

\* a split list typed in by hand: the k-th split is of the k-th member
CustomSplits ==
    {[k \in DOMAIN as |->
        [userId |-> IdSeq[k], displayName |-> NameSeq[k], amount |-> as[k],
         settled |-> FALSE]] : as \in SeqsUpTo(0..MaxCustom, MaxSplits)}

InitSplit ==
    /\ numAmount \in SplitInputAmounts
    /\ memberIds \in SeqsUpTo(Ids, MaxSelected)
    /\ memberNames \in NameMaps
    /\ formSplits \in CustomSplits
    /\ valid = NoResult
    /\ OthersIdle
    /\ pc = "start"
    /\ expenses = <<>>
    /\ groupBalances = <<>>
    /\ creditors = <<>>
    /\ debtors = <<>>
    /\ i = 0
    /\ j = 0
    /\ transactions = <<>>
    /\ original = <<>>
    /\ result = NoResult
    /\ prevResult = NoResult

NextSplit == SplitEqually \/ ValidateCustomSplits

SpecSplit == InitSplit /\ [][NextSplit]_vars

\* ------------------------------- splitEqually, validateCustomSplits (SpecSplit)
\* the sum of the amounts of the splits of the expense being composed
SplitTotal == SumOf([k \in DOMAIN formSplits |-> formSplits[k].amount], DOMAIN formSplits)

\* C14: for a non-empty member list splitEqually returns one split per member,
\* in the order of the list, unsettled, all with one amount, and that amount is
\* a whole number of cents at most half a cent away from amount / length.
C14_OneSplitPerMember ==
    (pc = "equal" /\ memberIds # <<>>) =>
        LET n == Len(memberIds)
            r == formSplits[1].amount
        IN  /\ Len(formSplits) = n
            /\ \A k \in DOMAIN formSplits :
                  /\ formSplits[k].userId = memberIds[k]
                  /\ formSplits[k].settled = FALSE
                  /\ formSplits[k].amount = r
            /\ r % 2 = 0
            /\ Abs(r * n - numAmount) <= n

C14_Witness ==
    /\ pc = "equal"
    /\ numAmount = 18000
    /\ memberIds = <<"m1", "m2", "m3">>
    /\ \A k \in 1..3 : formSplits[k].amount = 6000

\* C15: for a positive amount of whole cents and N >= 1 members the amounts of
\* the splits splitEqually returns add up to within 0.01 * (N - 1) of amount.
C15_SumWithinTolerance ==
    (pc = "equal" /\ numAmount > 0 /\ numAmount % 2 = 0 /\ Len(memberIds) >= 1) =>
        Abs(SplitTotal - numAmount) <= Tol * (Len(memberIds) - 1)

C15_Witness ==
    /\ pc = "equal"
    /\ numAmount > 0 /\ numAmount % 2 = 0
    /\ Len(memberIds) = 2
    /\ Abs(SplitTotal - numAmount) = Tol

C17_EqualSplitOfHundredRejected ==
    (pc = "equal" /\ numAmount = 20000 /\ Len(memberIds) = 3) =>
        /\ Len(formSplits) = 3
        /\ \A k \in DOMAIN formSplits : formSplits[k].amount = 6666
        /\ valid # NoResult => valid = "false"

C17_Witness ==
    /\ pc = "equal"
    /\ numAmount = 20000
    /\ memberIds = <<"m1", "m2", "m3">>
    /\ SplitTotal = 19998
    /\ valid = "false"

\* C18: splitEqually never returns a result for an empty member list or a
\* negative amount.
C18_InvalidInputRejected ==
    pc = "equal" => (memberIds # <<>> /\ numAmount >= 0)

\* -------------------------------- one expense in equal shares (SpecShares)
MaxShareMembers == 3    \* length of the roster that shares the expense
MaxShare == 3           \* largest small share, in units of 0.005

\* 30.00 and 50.00
TestShares == {6000, 10000}

ShareAmounts == (1..MaxShare) \cup TestShares

ShareIds == {IdSeq[k] : k \in 1..MaxShareMembers}

\* rosters without a repeated member
ShareRosters == {r \in SeqsUpTo(ShareIds, MaxShareMembers) : r # <<>> /\ Distinct(r)}

Reverse(s) == [k \in DOMAIN s |-> s[Len(s) + 1 - k]]

\* the expense of n * share paid by p, one unsettled split of share per member
\* of order
SharedExpense(p, share, order) ==
    [groupId |-> "group1", amount |-> Len(order) * share, paidBy |-> p,
     splits |-> [k \in DOMAIN order |->
                    [userId |-> order[k], amount |-> share, settled |-> FALSE]]]

InitShares ==
    /\ memberIds \in ShareRosters
    /\ \E p \in Range(memberIds), share \in ShareAmounts,
          order \in {memberIds, Reverse(memberIds)} :
          expenses = <<SharedExpense(p, share, order)>>
    /\ memberNames \in NameMaps
    /\ groupBalances = <<>>
    /\ pc = "start"
    /\ creditors = <<>>
    /\ debtors = <<>>
    /\ i = 0
    /\ j = 0
    /\ transactions = <<>>
    /\ original = <<>>
    /\ result = NoResult
    /\ prevResult = NoResult
    /\ numAmount = 0
    /\ formSplits = <<>>
    /\ valid = NoResult
    /\ OthersIdle

SpecShares == InitShares /\ [][Next]_vars

\* the display name of member u: its entry in memberNames, "Unknown" without one
ShownName(u) == IF u \in DOMAIN memberNames THEN memberNames[u] ELSE "Unknown"

\* the transactions C13 names: one per member of the roster other than the
\* payer, in roster order, of the share
ExpectedOfShares ==
    LET P == expenses[1].paidBy
        share == expenses[1].splits[1].amount
        others == Filter(memberIds, Roster \ {P})
    IN  [k \in DOMAIN others |->
            [userId |-> others[k],
             displayName |-> <<ShownName(others[k]), "owes", ShownName(P)>>,
             amount |-> share]]

\* simplifyDebts has returned for the array calculateGroupBalances returned
SimplifiedFresh ==
    /\ pc = "returned"
    /\ original = calculateGroupBalances(expenses, memberIds, memberNames)

\* C13 as stated: for one expense paid by a roster member and split into
\* equal, exact, unsettled shares among the roster, calculateGroupBalances then
\* simplifyDebts returns one transaction per non-payer, in roster order, with
\* that member as debtor, the payer as creditor in the label, the share as amount.
C13_OnePerNonPayer ==
    SimplifiedFresh => result = ExpectedOfShares

\* C13 amended: the same, for a share above the tolerance 0.01.
C13_OnePerNonPayerAboveTolerance ==
    (SimplifiedFresh /\ expenses[1].splits[1].amount > Tol) => result = ExpectedOfShares

C13_Witness ==
    /\ SimplifiedFresh
    /\ memberIds = <<"m2", "m1", "m3">>
    /\ expenses[1].paidBy = "m1"
    /\ expenses[1].amount = 18000
    /\ Len(result) = 2
    /\ result[1].userId = "m2"
    /\ result[2].amount = 6000

\* ------------------------------------------- the matching loop (SpecMatch)
MaxStake == 6       \* largest |balance| of the two creditors and two debtors drawn

\* two members that are owed and two that owe, alternating
MatchLists ==
    {<<DrawnBalance(1, c[1]), DrawnBalance(2, -d[1]),
       DrawnBalance(3, c[2]), DrawnBalance(4, -d[2])>> :
        c \in [1..2 -> 1..MaxStake], d \in [1..2 -> 1..MaxStake]}

InitMatch ==
    /\ groupBalances \in MatchLists
    /\ pc = "calculated"
    /\ expenses = <<>>
    /\ memberIds = <<>>
    /\ memberNames = <<>>
    /\ creditors = <<>>
    /\ debtors = <<>>
    /\ i = 0
    /\ j = 0
    /\ transactions = <<>>
    /\ original = <<>>
    /\ result = NoResult
    /\ prevResult = NoResult
    /\ numAmount = 0
    /\ formSplits = <<>>
    /\ valid = NoResult
    /\ OthersIdle

SpecMatch == InitMatch /\ [][NextDebts]_vars

\* the loop is about to run an iteration
AtLoopStep == pc = "loop" /\ i < Len(creditors) /\ j < Len(debtors)

\* what creditor k (1-based, in sorted order) still has to receive
CreditorRemaining(k) == groupBalances[creditors[k]].balance

\* C23 as stated: at every step of the loop the creditor and the debtor taken
\* have the largest remaining balance among the creditors and the debtors not
\* yet settled.
C23_LargestRemainingTaken ==
    AtLoopStep =>
        /\ \A k \in DOMAIN creditors :
              CreditorRemaining(k) >= Tol => CreditorRemaining(k) <= CreditorRemaining(i + 1)
        /\ \A k \in DOMAIN debtors :
              debtors[k].balance >= Tol => debtors[k].balance <= debtors[j + 1].balance

\* C23 amended: the creditor and the debtor taken are the first the loop has
\* not moved past in the order of descending balance at the call: whoever
\* precedes them has less than 0.01 left, whoever follows them has its whole
\* balance left and had no more at the call than they had; the emitted
\* transaction is of the debtor taken and of the smaller of the two remaining
\* balances.
C23_FirstNotPassedTaken ==
    [][SimplifyDebtsLoop =>
          LET t == transactions'[Len(transactions')]
              c == CreditorRemaining(i + 1)
              d == debtors[j + 1].balance
          IN  /\ \A k \in 1..i : CreditorRemaining(k) < Tol
              /\ \A k \in 1..j : debtors[k].balance < Tol
              /\ \A k \in (i + 2)..Len(creditors) :
                    /\ CreditorRemaining(k) = original[creditors[k]].balance
                    /\ CreditorRemaining(k) <= original[creditors[i + 1]].balance
              /\ \A k \in (j + 2)..Len(debtors) :
                    \E n \in DOMAIN original :
                        /\ original[n].userId = debtors[k].userId
                        /\ debtors[k].balance = -original[n].balance
                        /\ \E m \in DOMAIN original :
                              /\ original[m].userId = debtors[j + 1].userId
                              /\ -original[n].balance <= -original[m].balance
              /\ Len(transactions') = Len(transactions) + 1
              /\ t.userId = debtors[j + 1].userId
              /\ t.amount <= c /\ t.amount <= d /\ t.amount \in {c, d}]_vars

C23_Witness ==
    /\ AtLoopStep
    /\ Len(creditors) = 2
    /\ i = 0
    /\ transactions # <<>>
    /\ CreditorRemaining(1) < CreditorRemaining(2)

\* what the transactions txs credit to the member shown as name
CreditedTo(txs, name) ==
    SumOf([t \in DOMAIN txs |-> IF txs[t].displayName[3] = name THEN txs[t].amount ELSE 0],
          DOMAIN txs)

\* C24: the transactions of a debtor add up to at most its |balance| at the
\* call, those of a creditor to at most its balance at the call, and every
\* transaction is of at least 0.01.
C24_NeverOverSettles ==
    pc = "returned" =>
        /\ \A k \in DebtorsOf(original) :
              ChargedTo(result, original[k].userId) <= -original[k].balance
        /\ \A k \in CreditorsOf(original) :
              CreditedTo(result, original[k].displayName) <= original[k].balance
        /\ \A t \in DOMAIN result : result[t].amount >= Tol

C24_Witness ==
    /\ pc = "returned"
    /\ Len(result) = 2
    /\ \E t \in DOMAIN result : result[t].amount = Tol
    /\ \E k \in CreditorsOf(original) :
          CreditedTo(result, original[k].displayName) = original[k].balance

\* ------------------------------------ BalancesScreen and RecordSettlementScreen
MaxSettlements == 2     \* length of the settlement list of the group

calcVars == <<groupBalances, pc, creditors, debtors, i, j, transactions, original,
              result, prevResult>>
splitVars == <<numAmount, formSplits, valid>>

\* the texts typed into an amount field
AmountTexts == {"", "abc", "0", "-0.01", "15.00", "30.00"}

\* parseFloat of those texts: NaN, or the number in units of 0.005
ParseFloat(text) ==
    CASE text = "0" -> [nan |-> FALSE, value |-> 0]
      [] text = "-0.01" -> [nan |-> FALSE, value |-> -2]
      [] text = "15.00" -> [nan |-> FALSE, value |-> 3000]
      [] text = "30.00" -> [nan |-> FALSE, value |-> 6000]
      [] OTHER -> [nan |-> TRUE, value |-> 0]

\* balances.filter((b) => b.userId !== user?.id && b.balance > 0.01), as indices
YouOwe(bal, me) == {k \in DOMAIN bal : bal[k].userId # me /\ bal[k].balance > Tol}

\* balances.filter((b) => b.userId !== user?.id && b.balance < -0.01), as indices
OwesYou(bal, me) == {k \in DOMAIN bal : bal[k].userId # me /\ bal[k].balance < -Tol}

\* BalanceItem: nothing for |balance| < 0.01, the Settle button for isNegative
ButtonRendered(b) == ~(Abs(b.balance) < Tol) /\ b.balance < -Tol

\* the items of the two sections that show a Settle button
SettleButtons ==
    {k \in YouOwe(groupBalances, auth.user) \cup OwesYou(groupBalances, auth.user) :
        ButtonRendered(groupBalances[k])}

\* the onSettle prop of item k: handleSettle in "You Owe", () => {} in "Owes You"
OnSettle(k) == IF k \in YouOwe(groupBalances, auth.user) THEN "handleSettle" ELSE "noop"

\* a press of the Settle button of an item of BalancesScreen
PressSettle ==
    /\ screen = "Balances"
    /\ \E k \in SettleButtons :
          /\ pressed' = groupBalances[k].userId
          /\ IF OnSettle(k) = "handleSettle" /\ groupBalances[k].userId \in DOMAIN memberNames
             THEN /\ screen' = "RecordSettlement"
                  /\ routeParams' = <<[groupId |-> "group1", fromUserId |-> auth.user,
                                       toUserId |-> groupBalances[k].userId,
                                       toUserName |-> memberNames[groupBalances[k].userId],
                                       suggestedAmount |-> Abs(groupBalances[k].balance)]>>
             ELSE UNCHANGED <<screen, routeParams>>
    /\ UNCHANGED <<expenses, memberIds, memberNames, calcVars, splitVars, settlements,
                   storeVars, authVars>>

\* RecordSettlement that also marks the payer's splits as settled
RecordSettlementMarking ==
    /\ auth.user # Null
    /\ Len(settlements) < MaxSettlements
    /\ \E to \in Payers, text \in AmountTexts :
          LET n == ParseFloat(text)
          IN  /\ ~n.nan /\ n.value > 0
              /\ settlements' = <<[id |-> Len(settlements) + 1, groupId |-> "group1",
                                   fromUserId |-> auth.user, toUserId |-> to,
                                   amount |-> n.value]>> \o settlements
              /\ alert' = "Success"
              /\ expenses' = [e \in DOMAIN expenses |->
                    [expenses[e] EXCEPT !.splits =
                        [l \in DOMAIN expenses[e].splits |->
                            IF expenses[e].splits[l].userId = auth.user
                            THEN [expenses[e].splits[l] EXCEPT !.settled = TRUE]
                            ELSE expenses[e].splits[l]]]]
    /\ UNCHANGED <<memberIds, memberNames, calcVars, splitVars, screen, routeParams,
                   pressed, serverDocs, pending, snapshotDue, form, nextId, authVars>>

\* handleSubmit of RecordSettlementScreen: the amount is checked, the settlement
\* is created by settlementsService.createSettlement and put first in the store
RecordSettlement ==
    /\ auth.user # Null
    /\ Len(settlements) < MaxSettlements
    /\ \E to \in Payers, text \in AmountTexts, created \in BOOLEAN :
          LET n == ParseFloat(text)
          IN  IF n.nan \/ n.value <= 0 \/ ~created
              THEN /\ alert' = "Error"
                   /\ UNCHANGED settlements
              ELSE /\ settlements' = <<[id |-> Len(settlements) + 1, groupId |-> "group1",
                                        fromUserId |-> auth.user, toUserId |-> to,
                                        amount |-> n.value]>> \o settlements
                   /\ alert' = "Success"
    /\ UNCHANGED <<expenses, memberIds, memberNames, calcVars, splitVars, screen,
                   routeParams, pressed, serverDocs, pending, snapshotDue, form,
                   nextId, authVars>>

\* no expense or one
ShownExpenses == {<<>>} \cup {<<e>> : e \in Expenses}

InitScreen ==
    /\ expenses \in ShownExpenses
    /\ memberIds \in SeqsUpTo(Ids, MaxRoster)
    /\ memberNames \in NameMaps
    /\ auth \in {SignedIn(u) : u \in Ids}
    /\ SessionIdle
    /\ groupBalances = <<>>
    /\ pc = "start"
    /\ creditors = <<>>
    /\ debtors = <<>>
    /\ i = 0
    /\ j = 0
    /\ transactions = <<>>
    /\ original = <<>>
    /\ result = NoResult
    /\ prevResult = NoResult
    /\ numAmount = 0
    /\ formSplits = <<>>
    /\ valid = NoResult
    /\ UiIdle
    /\ StoreIdle

NextScreen == CalculateGroupBalances \/ PressSettle \/ RecordSettlement

SpecScreen == InitScreen /\ [][NextScreen]_vars

\* --------------------------------------------- settlements (SpecScreen)
\* what member u owes by the expenses alone: its unsettled splits less what it paid
OwedByExpenses(u) == UnsettledSum({u}) - PaidBySum({u})

\* the balance shown for member u, 0 when no entry is shown for it
ShownBalance(u) ==
    SumOf([k \in DOMAIN groupBalances |->
              IF groupBalances[k].userId = u THEN groupBalances[k].balance ELSE 0],
          DOMAIN groupBalances)

C22_SettlementClearsDebt ==
    pc = "calculated" =>
        \A k \in DOMAIN settlements :
            LET A == settlements[k].fromUserId
                B == settlements[k].toUserId
                X == settlements[k].amount
            IN  (/\ A \in Roster /\ B \in Roster /\ A # B
                 /\ X > Tol
                 /\ OwedByExpenses(A) = X
                 /\ -OwedByExpenses(B) >= X) => ShownBalance(A) >= -Tol

\* C27: when the screen lists a member in "You Owe", a Settle button is shown
\* whose press calls handleSettle, and a press of a Settle button navigates to
\* RecordSettlement with the counterparty and the owed amount.
C27_SettleReachesRecord ==
    /\ YouOwe(groupBalances, auth.user) # {} =>
          \E k \in SettleButtons : OnSettle(k) = "handleSettle"
    /\ pressed # "none" => screen = "RecordSettlement"

\* no Settle button that is shown calls handleSettle
NoSettleButtonWired == \A k \in SettleButtons : OnSettle(k) = "noop"

\* ------------------------------- AddExpenseScreen and the expenses store
MaxSubmits == 2     \* how many expenses are submitted

\* String.prototype.trim of the descriptions typed
Trim(text) == IF text = " " THEN "" ELSE text

\* the expense handleSubmit builds, with the id Firestore gives the document
NewExpense(id, n, splits) ==
    [id |-> id, groupId |-> "group1", description |-> Trim(form.description),
     amount |-> n, paidBy |-> form.paidBy, splits |-> splits]

\* HandleSubmit without the check of selectedMembers.length
HandleSubmitUnguarded ==
    /\ pending = <<>>
    /\ nextId < MaxSubmits
    /\ LET n == ParseFloat(form.amount)
       IN  IF Trim(form.description) = "" \/ n.nan \/ n.value <= 0
           THEN /\ alert' = "Error"
                /\ UNCHANGED <<serverDocs, pending, snapshotDue, nextId, splitVars>>
           ELSE \E r \in SplitAmountOf(n.value, form.selectedMembers) :
                   LET splits == splitEqually(form.selectedMembers, memberNames, r)
                       created == NewExpense(nextId + 1, n.value, splits)
                   IN  /\ numAmount' = n.value
                       /\ formSplits' = splits
                       /\ nextId' = nextId + 1
                       /\ serverDocs' = <<created>> \o serverDocs
                       /\ snapshotDue' = TRUE
                       /\ pending' = <<created>>
                       /\ UNCHANGED <<alert, valid>>
    /\ UNCHANGED <<expenses, memberIds, memberNames, calcVars, uiVars, form, authVars>>

\* handleSubmit of AddExpenseScreen up to the await: the three checks, then
\* splitEqually and the call of expensesService.createExpense, whose
\* firestore add writes the document; the button is disabled while it runs
HandleSubmit ==
    /\ pending = <<>>
    /\ nextId < MaxSubmits
    /\ LET n == ParseFloat(form.amount)
       IN  IF \/ Trim(form.description) = ""
              \/ n.nan \/ n.value <= 0
              \/ Len(form.selectedMembers) = 0
           THEN /\ alert' = "Error"
                /\ UNCHANGED <<serverDocs, pending, snapshotDue, nextId, splitVars>>
           ELSE \E r \in SplitAmountOf(n.value, form.selectedMembers) :
                   LET splits == splitEqually(form.selectedMembers, memberNames, r)
                       created == NewExpense(nextId + 1, n.value, splits)
                   IN  /\ numAmount' = n.value
                       /\ formSplits' = splits
                       /\ nextId' = nextId + 1
                       /\ serverDocs' = <<created>> \o serverDocs
                       /\ snapshotDue' = TRUE
                       /\ pending' = <<created>>
                       /\ UNCHANGED <<alert, valid>>
    /\ UNCHANGED <<expenses, memberIds, memberNames, calcVars, uiVars, form, authVars>>

\* handleSubmit after the await: addExpense(groupId, created) puts the expense
\* first in the store's list
AddExpense ==
    /\ pending # <<>>
    /\ expenses' = <<pending[1]>> \o expenses
    /\ pending' = <<>>
    /\ alert' = "Success"
    /\ UNCHANGED <<memberIds, memberNames, calcVars, splitVars, uiVars, serverDocs,
                   snapshotDue, form, nextId, authVars>>

\* createExpense throws: the document is not kept, handleSubmit shows the error
CreateExpenseFails ==
    /\ pending # <<>>
    /\ serverDocs' = SelectSeq(serverDocs, LAMBDA d : d.id # pending[1].id)
    /\ snapshotDue' = TRUE
    /\ pending' = <<>>
    /\ alert' = "Error"
    /\ UNCHANGED <<expenses, memberIds, memberNames, calcVars, splitVars, uiVars,
                   form, nextId, authVars>>

\* the onSnapshot callback of GroupDetailsScreen: setExpenses(groupId, docs),
\* then the balances of the documents
Snapshot ==
    /\ snapshotDue
    /\ snapshotDue' = FALSE
    /\ expenses' = serverDocs
    /\ groupBalances' = calculateGroupBalances(serverDocs, memberIds, memberNames)
    /\ pc' = "calculated"
    /\ creditors' = <<>>
    /\ debtors' = <<>>
    /\ i' = 0
    /\ j' = 0
    /\ transactions' = <<>>
    /\ original' = <<>>
    /\ result' = NoResult
    /\ prevResult' = NoResult
    /\ UNCHANGED <<memberIds, memberNames, splitVars, uiVars, serverDocs, pending,
                   form, nextId, alert, authVars>>

\* the forms a user submits
Descriptions == {"", " ", "Dinner"}
Selections == {sel \in SeqsUpTo(Payers, MaxRoster) : Distinct(sel)}
Forms ==
    [description : Descriptions, amount : AmountTexts, paidBy : Payers,
     selectedMembers : Selections]

InitStore ==
    /\ form \in Forms
    /\ memberIds \in {r \in SeqsUpTo(Payers, MaxRoster) : Distinct(r)}
    /\ memberNames \in NameMaps
    /\ expenses = <<>>
    /\ serverDocs = <<>>
    /\ pending = <<>>
    /\ snapshotDue = TRUE
    /\ nextId = 0
    /\ alert = "none"
    /\ auth = SignedIn("m1")
    /\ SessionIdle
    /\ groupBalances = <<>>
    /\ pc = "start"
    /\ creditors = <<>>
    /\ debtors = <<>>
    /\ i = 0
    /\ j = 0
    /\ transactions = <<>>
    /\ original = <<>>
    /\ result = NoResult
    /\ prevResult = NoResult
    /\ numAmount = 0
    /\ formSplits = <<>>
    /\ valid = NoResult
    /\ UiIdle

NextStore ==
    \/ HandleSubmit
    \/ AddExpense
    \/ CreateExpenseFails
    \/ Snapshot
    \/ CalculateGroupBalances

SpecStore == InitStore /\ [][NextStore]_vars

\* C25: the store's expense list of the group never holds two entries with the
\* same expense id.
C25_NoDuplicateIds ==
    \A a, b \in DOMAIN expenses : a # b => expenses[a].id # expenses[b].id

\* C26: handleSubmit with an empty member list or an amount that is not a
\* number above zero computes no split and creates and adds no expense; an
\* expense it creates has an amount above zero and a split per selected member.
C26_SubmitGuards ==
    [][HandleSubmit =>
          LET n == ParseFloat(form.amount)
          IN  /\ (n.nan \/ n.value <= 0 \/ form.selectedMembers = <<>>) =>
                    /\ UNCHANGED <<numAmount, formSplits, serverDocs, pending,
                                   expenses, nextId>>
                    /\ alert' = "Error"
              /\ pending' # <<>> =>
                    /\ pending'[1].amount > 0
                    /\ pending'[1].splits # <<>>
                    /\ Len(pending'[1].splits) = Len(form.selectedMembers)]_vars

C26_Witness ==
    /\ alert = "Error"
    /\ form.selectedMembers = <<>>
    /\ form.description = "Dinner"
    /\ form.amount = "30.00"
    /\ serverDocs = <<>>
    /\ nextId = 0

\* --------------------------------------------- useAuthStore and useAuth
MaxListenerCalls == 2   \* listener callbacks that have not called setUser yet

appVars == <<expenses, memberIds, memberNames, calcVars, splitVars, uiVars, storeVars>>

\* the uid Firebase signs in
Uid == "u1"

\* the actions of the store, as functions of its state
setUser(st, u) ==
    [st EXCEPT !.user = u, !.isAuthenticated = (u # Null), !.isLoading = FALSE,
               !.error = Null]
setLoading(st, loading) == [st EXCEPT !.isLoading = loading]
setError(st, e) == [st EXCEPT !.error = e, !.isLoading = FALSE]
setVerificationId(st, id) == [st EXCEPT !.verificationId = id]
logout(st) ==
    [st EXCEPT !.user = Null, !.isAuthenticated = FALSE, !.error = Null,
               !.verificationId = Null]
clearError(st) == [st EXCEPT !.error = Null]

\* set(...) of the persisted store: the new state, and its user written to storage
Commit(st) == auth' = st /\ persistedUser' = st.user

\* setLoading(true); clearError(): how every operation of useAuth begins
Begin(st) == clearError(setLoading(st, TRUE))

\* s without its k-th element
RemoveAt(s, k) == [n \in 1..(Len(s) - 1) |-> IF n < k THEN s[n] ELSE s[n + 1]]

\* a screen that uses useAuth mounts: its effect subscribes and Firebase calls
\* the listener with the current user; the listener calls setUser(null) when
\* there is none and starts getCurrentUserData when there is one
Mount ==
    /\ Len(listener) < MaxListenerCalls
    /\ IF authUser = Null
       THEN /\ Commit(setUser(auth, Null))
            /\ UNCHANGED listener
       ELSE /\ listener' = Append(listener, "reading")
            /\ UNCHANGED <<auth, persistedUser>>
    /\ UNCHANGED <<appVars, authUser, profileDoc, op, profileDone>>

\* getCurrentUserData of a listener callback reads the user document
ListenerRead ==
    /\ \E k \in DOMAIN listener :
          /\ listener[k] = "reading"
          /\ listener' = [listener EXCEPT ![k] = IF profileDoc = "none" THEN Null ELSE Uid]
    /\ UNCHANGED <<appVars, auth, persistedUser, authUser, profileDoc, op, profileDone>>

\* a listener callback calls setUser with what it has
ListenerDeliver ==
    /\ \E k \in DOMAIN listener :
          /\ listener[k] # "reading"
          /\ Commit(setUser(auth, listener[k]))
          /\ listener' = RemoveAt(listener, k)
    /\ UNCHANGED <<appVars, authUser, profileDoc, op, profileDone>>

\* sendOTP up to its await; the button is disabled while isLoading
SendOTPStart ==
    /\ op = "idle" /\ ~auth.isLoading
    /\ Commit(Begin(auth))
    /\ op' = "sendOTP"
    /\ UNCHANGED <<appVars, authUser, profileDoc, listener, profileDone>>

SendOTPResolves ==
    /\ op = "sendOTP"
    /\ Commit(setLoading(setVerificationId(auth, "vid"), FALSE))
    /\ op' = "idle"
    /\ UNCHANGED <<appVars, authUser, profileDoc, listener, profileDone>>

SendOTPFails ==
    /\ op = "sendOTP"
    /\ Commit(setLoading(setError(auth, "failed"), FALSE))
    /\ op' = "idle"
    /\ UNCHANGED <<appVars, authUser, profileDoc, listener, profileDone>>

\* verifyOTP up to its first await, or its throw without a verification id
VerifyOTPStart ==
    /\ op = "idle" /\ ~auth.isLoading
    /\ IF auth.verificationId = Null
       THEN /\ Commit(setLoading(setError(auth, "No verification ID found"), FALSE))
            /\ op' = "idle"
       ELSE /\ Commit(Begin(auth))
            /\ op' = "verifyOTP"
    /\ UNCHANGED <<appVars, authUser, profileDoc, listener, profileDone>>

\* signInWithCredential resolves: Firebase has a user and, when it had none,
\* calls the listener
VerifyOTPSignedIn ==
    /\ op = "verifyOTP"
    /\ Len(listener) < MaxListenerCalls
    /\ authUser' = Uid
    /\ listener' = IF authUser = Null THEN Append(listener, "reading") ELSE listener
    /\ op' = "checkUserProfile"
    /\ UNCHANGED <<appVars, auth, persistedUser, profileDoc, profileDone>>

VerifyOTPFails ==
    /\ op = "verifyOTP"
    /\ Commit(setLoading(setError(auth, "failed"), FALSE))
    /\ op' = "idle"
    /\ UNCHANGED <<appVars, authUser, profileDoc, listener, profileDone>>

\* checkUserProfile resolves and verifyOTP returns: setUser for a complete
\* profile, needsProfileSetup otherwise
VerifyOTPChecked ==
    /\ op = "checkUserProfile"
    /\ IF profileDoc = "complete"
       THEN Commit(setUser(auth, Uid))
       ELSE UNCHANGED <<auth, persistedUser>>
    /\ op' = "idle"
    /\ UNCHANGED <<appVars, authUser, profileDoc, listener, profileDone>>

\* completeProfile up to its await; the button is disabled while isLoading
CompleteProfileStart ==
    /\ op = "idle" /\ ~auth.isLoading
    /\ authUser # Null
    /\ Commit(Begin(auth))
    /\ op' = "updateUserProfile"
    /\ UNCHANGED <<appVars, authUser, profileDoc, listener, profileDone>>

\* updateUserProfile writes the user document
CompleteProfileWritten ==
    /\ op = "updateUserProfile"
    /\ profileDoc' = "complete"
    /\ op' = "completeProfile"
    /\ UNCHANGED <<appVars, auth, persistedUser, authUser, listener, profileDone>>

\* completeProfile after its await: setUser(userData); setLoading(false)
CompleteProfileResolves ==
    /\ op = "completeProfile"
    /\ Commit(setLoading(setUser(auth, Uid), FALSE))
    /\ profileDone' = TRUE
    /\ op' = "idle"
    /\ UNCHANGED <<appVars, authUser, profileDoc, listener>>

CompleteProfileFails ==
    /\ op = "updateUserProfile"
    /\ Commit(setLoading(setError(auth, "failed"), FALSE))
    /\ op' = "idle"
    /\ UNCHANGED <<appVars, authUser, profileDoc, listener, profileDone>>

\* signOut up to its await
SignOutStart ==
    /\ op = "idle"
    /\ authUser # Null
    /\ Commit(Begin(auth))
    /\ profileDone' = FALSE
    /\ op' = "signOut"
    /\ UNCHANGED <<appVars, authUser, profileDoc, listener>>

\* auth().signOut() resolves: Firebase has no user and calls the listener with
\* null, which calls setUser(null); signOut goes on with logout() and, in
\* finally, setLoading(false)
SignOutResolves ==
    /\ op = "signOut"
    /\ authUser' = Null
    /\ Commit(setLoading(logout(setUser(auth, Null)), FALSE))
    /\ op' = "idle"
    /\ UNCHANGED <<appVars, profileDoc, listener, profileDone>>

SignOutFails ==
    /\ op = "signOut"
    /\ Commit(setLoading(setError(auth, "failed"), FALSE))
    /\ op' = "idle"
    /\ UNCHANGED <<appVars, authUser, profileDoc, listener, profileDone>>

\* the app is started again: the store is created anew and the persisted user
\* merged into it; what was in flight is gone
AppRestart ==
    /\ auth' = [InitialAuth EXCEPT !.user = persistedUser]
    /\ op' = "idle"
    /\ listener' = <<>>
    /\ profileDone' = FALSE
    /\ UNCHANGED <<appVars, persistedUser, authUser, profileDoc>>

InitAuth ==
    /\ auth = InitialAuth
    /\ persistedUser = Null
    /\ authUser = Null
    /\ profileDoc \in {"none", "incomplete", "complete"}
    /\ op = "idle"
    /\ listener = <<>>
    /\ profileDone = FALSE
    /\ expenses = <<>>
    /\ memberIds = <<>>
    /\ memberNames = <<>>
    /\ groupBalances = <<>>
    /\ pc = "start"
    /\ creditors = <<>>
    /\ debtors = <<>>
    /\ i = 0
    /\ j = 0
    /\ transactions = <<>>
    /\ original = <<>>
    /\ result = NoResult
    /\ prevResult = NoResult
    /\ numAmount = 0
    /\ formSplits = <<>>
    /\ valid = NoResult
    /\ UiIdle
    /\ StoreIdle

\* an operation of useAuth resolves or throws
Settles ==
    \/ SendOTPResolves \/ SendOTPFails
    \/ (VerifyOTPStart /\ op' = "idle") \/ VerifyOTPFails \/ VerifyOTPChecked
    \/ CompleteProfileResolves \/ CompleteProfileFails
    \/ SignOutResolves \/ SignOutFails

NextAuth ==
    \/ Mount \/ ListenerRead \/ ListenerDeliver
    \/ SendOTPStart \/ SendOTPResolves \/ SendOTPFails
    \/ VerifyOTPStart \/ VerifyOTPSignedIn \/ VerifyOTPFails \/ VerifyOTPChecked
    \/ CompleteProfileStart \/ CompleteProfileWritten \/ CompleteProfileResolves
    \/ CompleteProfileFails
    \/ SignOutStart \/ SignOutResolves \/ SignOutFails
    \/ AppRestart

SpecAuth == InitAuth /\ [][NextAuth]_vars

\* C28: in every reachable state of the auth store isAuthenticated is true
\* exactly when user is not null.
C28_AuthenticatedIffUser ==
    auth.isAuthenticated <=> auth.user # Null

\* C29: when an operation of useAuth resolves or throws, isLoading is false.
C29_NotLoadingWhenSettled ==
    [][Settles => ~auth'.isLoading]_vars

\* C30: once completeProfile has resolved, user is not null and
\* isAuthenticated is true until signOut is called.
C30_UserStaysAfterProfile ==
    profileDone => (auth.user # Null /\ auth.isAuthenticated)

====
